---- MODULE Spec2Model ----
(***************************************************************************)
(* A model of utils.go of the DNS delegation checker: the record           *)
(* extractors, query / queryRRset, findNS, getParentDomain, isRFC1918,     *)
(* isSameSubnet and scanerror.  Each group of functions has its own        *)
(* specification (SpecSubnet, SpecPrivate, SpecRR, SpecNS, SpecScan,        *)
(* SpecDom); the variables of the other groups stay at their idle values.  *)
(***************************************************************************)
EXTENDS Integers, Sequences, FiniteSets, TLC

VARIABLES
    pc,        \* position of the running call
    ips,       \* isSameSubnet: the argument list (net.IP values)
    same,      \* isSameSubnet: the returned boolean
    ip,        \* isRFC1918: the argument
    priv,      \* isRFC1918: the returned boolean
    rrIn,      \* extractRR: the record list passed
    rrTypes,   \* extractRR: the variadic qtypes
    rrOut,     \* extractRR: the returned list
    qtype,     \* queryRRset: the requested type
    exch,      \* queryRRset: what c.Exchange produced
    qres,      \* queryRRset: the returned (rrset, rtt, err)
    nsExch,    \* findNS: what the NS exchange produced
    rrset,     \* findNS: the NS rrset being ranged over
    idx,       \* findNS: index of the current NS record
    fips,      \* findNS: the local ips of the current iteration
    nsdatas,   \* findNS: the NSData list built so far / returned
    ferr,      \* findNS: the returned error
    lastA,     \* findNS: what the A exchange of the current NS record produced
    lastAAAA,  \* findNS: what the AAAA exchange just made produced
    report,    \* scanerror: r.Result, the findings
    report0,   \* scanerror: r.Result before the first call
    calls,     \* scanerror: the arguments of the calls made, in order
    fail,      \* scanerror: the value the latest call returned
    dom0,      \* getParentDomain: the name the walk started from
    dom,       \* getParentDomain: the current name
    steps      \* getParentDomain: applications so far

netVars  == <<ips, same, ip, priv>>
rrVars   == <<rrIn, rrTypes, rrOut, qtype, exch, qres>>
nsVars   == <<nsExch, rrset, idx, fips, nsdatas, ferr, lastA, lastAAAA>>
scanVars == <<report, report0, calls, fail>>
domVars  == <<dom0, dom, steps>>
vars     == <<pc, netVars, rrVars, nsVars, scanVars, domVars>>

(***************************************************************************)
(* Bounds.                                                                 *)
(***************************************************************************)
MaxIPs   == 3   \* addresses passed to isSameSubnet
MaxLen   == 3   \* records passed to extractRR
MaxAns   == 2   \* records in one answer section
MaxTypes == 2   \* qtypes passed to extractRR
MaxCalls == 2   \* scanerror calls on one report
MaxName  == 6   \* characters of a domain name
MaxSteps == 4   \* getParentDomain applications

(***************************************************************************)
(* Sequences.                                                              *)
(***************************************************************************)
SeqsUpTo(S, n) == UNION {[1..k -> S] : k \in 0..n}

InjSeqsUpTo(S, n) ==
    {s \in SeqsUpTo(S, n) : \A i, j \in 1..Len(s) : s[i] = s[j] => i = j}

(***************************************************************************)
(* package net: IP is a byte slice of length 4 or 16, nil is <<>>.         *)
(***************************************************************************)
RECURSIVE BitAnd(_, _, _)
BitAnd(a, b, n) ==
    IF n = 0 THEN 0
    ELSE (IF a % 2 = 1 /\ b % 2 = 1 THEN 1 ELSE 0) + 2 * BitAnd(a \div 2, b \div 2, n - 1)

And8(a, b) == BitAnd(a, b, 8)

IPv4(a, b, c, d) == <<a, b, c, d>>

\* net.ParseIP of a dotted quad: the 16-byte IPv4-in-IPv6 form.
ParseIPv4(a, b, c, d) == <<0, 0, 0, 0, 0, 0, 0, 0, 0, 0, 255, 255, a, b, c, d>>

\* IP.To4: the 4-byte form, or nil.
To4(x) ==
    IF Len(x) = 4 THEN x
    ELSE IF /\ Len(x) = 16
            /\ \A i \in 1..10 : x[i] = 0
            /\ x[11] = 255
            /\ x[12] = 255
         THEN SubSeq(x, 13, 16)
         ELSE <<>>

Pow2(n) == IF n = 0 THEN 1 ELSE IF n = 1 THEN 2 ELSE IF n = 2 THEN 4
           ELSE IF n = 3 THEN 8 ELSE IF n = 4 THEN 16 ELSE IF n = 5 THEN 32
           ELSE IF n = 6 THEN 64 ELSE IF n = 7 THEN 128 ELSE 256

\* net.CIDRMask(ones, bits): ones 1-bits followed by 0-bits, bits/8 bytes.
CIDRMask(ones, bits) ==
    [k \in 1..(bits \div 8) |->
        IF ones >= 8 * k THEN 255
        ELSE IF ones <= 8 * (k - 1) THEN 0
        ELSE 256 - Pow2(8 * k - ones)]

IPNet(addr, mask) == [IP |-> addr, Mask |-> mask]

\* net.networkNumberAndMask: <<>> for nil.
networkNumberAndMask(n) ==
    LET v4 == To4(n.IP)
        nn == IF v4 # <<>> THEN v4 ELSE n.IP
        m  == n.Mask
    IN  IF v4 = <<>> /\ Len(n.IP) # 16 THEN [ip |-> <<>>, m |-> <<>>]
        ELSE IF Len(m) = 4
             THEN IF Len(nn) # 4 THEN [ip |-> <<>>, m |-> <<>>]
                  ELSE [ip |-> nn, m |-> m]
        ELSE IF Len(m) = 16
             THEN IF Len(nn) = 4 THEN [ip |-> nn, m |-> SubSeq(m, 13, 16)]
                  ELSE [ip |-> nn, m |-> m]
        ELSE [ip |-> <<>>, m |-> <<>>]

\* (*IPNet).Contains
Contains(n, x) ==
    LET nm == networkNumberAndMask(n)
        y  == IF To4(x) # <<>> THEN To4(x) ELSE x
    IN  /\ Len(y) = Len(nm.ip)
        /\ \A i \in 1..Len(y) : And8(nm.ip[i], nm.m[i]) = And8(y[i], nm.m[i])

isRFC1918_Mask16(x) ==
    LET ten         == IPNet(ParseIPv4(10, 0, 0, 0), CIDRMask(8, 32))
        oneNineTwo  == IPNet(ParseIPv4(192, 168, 0, 0), CIDRMask(16, 32))
        oneSevenTwo == IPNet(ParseIPv4(172, 16, 0, 0), CIDRMask(16, 32))
    IN  Contains(ten, x) \/ Contains(oneNineTwo, x) \/ Contains(oneSevenTwo, x)

isRFC1918(x) ==
    LET ten         == IPNet(ParseIPv4(10, 0, 0, 0), CIDRMask(8, 32))
        oneNineTwo  == IPNet(ParseIPv4(192, 168, 0, 0), CIDRMask(16, 32))
        oneSevenTwo == IPNet(ParseIPv4(172, 16, 0, 0), CIDRMask(12, 32))
    IN  Contains(ten, x) \/ Contains(oneNineTwo, x) \/ Contains(oneSevenTwo, x)

\* The first loop of isSameSubnet: one /24 IPNet per argument with To4 # nil.
RECURSIVE SubnetsOf(_, _)
SubnetsOf(xs, ones) ==
    IF xs = <<>> THEN <<>>
    ELSE (IF To4(Head(xs)) # <<>>
          THEN <<IPNet(Head(xs), CIDRMask(ones, 32))>> ELSE <<>>)
         \o SubnetsOf(Tail(xs), ones)

\* The nested loops of isSameSubnet: the (ipnet, ip) pairs that contain.
SubnetCount(ipnets, xs) ==
    Cardinality({p \in (1..Len(ipnets)) \X (1..Len(xs)) : Contains(ipnets[p[1]], xs[p[2]])})

isSameSubnet_Mask16(xs) ==
    LET ipnets == SubnetsOf(xs, 16)
        ipv4   == Len(ipnets)
    IN  SubnetCount(ipnets, xs) = ipv4 * Len(ipnets)

isSameSubnet(xs) ==
    LET ipnets == SubnetsOf(xs, 24)
        ipv4   == Len(ipnets)
        count  == SubnetCount(ipnets, xs)
    IN  IF count = ipv4 * Len(ipnets) THEN TRUE ELSE FALSE


(***************************************************************************)
(* Errors: nil, or a message.  A string is the sequence of its words, so   *)
(* that strings.Contains is a search for a contiguous run of words.        *)
(***************************************************************************)
NoErr == [isNil |-> TRUE, msg |-> <<>>]

Errorf(m) == [isNil |-> FALSE, msg |-> m]

StringsContains(s, sub) ==
    \E k \in 0..(Len(s) - Len(sub)) : SubSeq(s, k + 1, k + Len(sub)) = sub

(***************************************************************************)
(* package dns: record types, response codes, records.  A record carries   *)
(* its Go type (what a type switch sees) and its header's Rrtype; records  *)
(* unpacked from the wire have the two agree.                              *)
(***************************************************************************)
TypeA    == 1
TypeNS   == 2
TypeAAAA == 28
OtherTypes == {5}       \* CNAME

Types == {TypeA, TypeNS, TypeAAAA} \cup OtherTypes

GoTypeOf(t) == IF t = TypeA THEN "*dns.A" ELSE IF t = TypeNS THEN "*dns.NS"
               ELSE IF t = TypeAAAA THEN "*dns.AAAA" ELSE "*dns.CNAME"

RR(t, d) == [gotype |-> GoTypeOf(t), rrtype |-> t, data |-> d]

\* fmt's %#v of a uint16
HexOf(t) == IF t = TypeA THEN "0x1" ELSE IF t = TypeNS THEN "0x2"
            ELSE IF t = TypeAAAA THEN "0x1c" ELSE "0x5"

Rcodes == {0, 3, 5}

\* dns.RcodeToString
RcodeToString(c) == IF c = 3 THEN "NXDOMAIN" ELSE IF c = 5 THEN "REFUSED" ELSE "NOERROR"

TransportErrs == {Errorf(<<"i/o", "timeout">>)}

Rtts == {12}

\* What c.Exchange hands back: an error (and no message), or a message
\* with its Rcode and Answer section, and the round trip time.  The records of
\* an answer section are distinct.
ExchOutcomes(pool) ==
    {[err |-> e, rcode |-> 0, answer |-> <<>>, rtt |-> 0] : e \in TransportErrs}
    \cup
    [err : {NoErr}, rcode : {0}, answer : InjSeqsUpTo(pool, MaxAns), rtt : Rtts]
    \cup
    [err : {NoErr}, rcode : Rcodes \ {0}, answer : InjSeqsUpTo(pool, 1), rtt : Rtts]

NoExch == [err |-> NoErr, rcode |-> 0, answer |-> <<>>, rtt |-> 0]

(***************************************************************************)
(* utils.go                                                                *)
(***************************************************************************)
RECURSIVE extractIP(_)
extractIP(rs) ==
    IF rs = <<>> THEN <<>>
    ELSE (IF Head(rs).gotype \in {"*dns.A", "*dns.AAAA"} THEN <<Head(rs).data>> ELSE <<>>)
         \o extractIP(Tail(rs))

\* The map m of extractRR: its keys.
QtypeMap(qtypes) == {qtypes[i] : i \in 1..Len(qtypes)}

RECURSIVE extractRRLoop(_, _)
extractRRLoop(rs, m) ==
    IF rs = <<>> THEN <<>>
    ELSE (IF Head(rs).rrtype \in m THEN <<Head(rs)>> ELSE <<>>) \o extractRRLoop(Tail(rs), m)

RECURSIVE extractRR_Prepend(_, _)
extractRR_Prepend(rs, qtypes) ==
    IF rs = <<>> THEN <<>>
    ELSE extractRR_Prepend(Tail(rs), qtypes)
         \o (IF Head(rs).rrtype \in QtypeMap(qtypes) THEN <<Head(rs)>> ELSE <<>>)

extractRR(rs, qtypes) == extractRRLoop(rs, QtypeMap(qtypes))

\* query, given what c.Exchange produced: (Response, error)
query(o) ==
    IF ~o.err.isNil THEN [answer |-> <<>>, rtt |-> 0, err |-> o.err]
    ELSE IF o.rcode # 0
         THEN [answer |-> <<>>, rtt |-> 0,
               err |-> Errorf(<<"failure:", RcodeToString(o.rcode)>>)]
         ELSE [answer |-> o.answer, rtt |-> o.rtt, err |-> NoErr]

queryRRset_NoEmptyCheck(t, o) ==
    LET res == query(o)
    IN  IF ~res.err.isNil THEN [rrset |-> <<>>, rtt |-> 0, err |-> res.err]
        ELSE [rrset |-> extractRR(res.answer, <<t>>), rtt |-> res.rtt, err |-> NoErr]

queryRRset(t, o) ==
    LET res == query(o)
        rs  == extractRR(res.answer, <<t>>)
    IN  IF ~res.err.isNil THEN [rrset |-> <<>>, rtt |-> 0, err |-> res.err]
        ELSE IF Len(rs) = 0
             THEN [rrset |-> <<>>, rtt |-> 0, err |-> Errorf(<<"no", "rr", "for", HexOf(t)>>)]
             ELSE [rrset |-> rs, rtt |-> res.rtt, err |-> NoErr]

getIP(t, o) ==
    LET r == queryRRset(t, o)
    IN  IF ~r.err.isNil THEN <<>> ELSE extractIP(r.rrset)

\* findNS lines 109-110: the A addresses, then the AAAA addresses.
nsIPs_AAAAFirst(a, aaaa) == aaaa \o a

nsIPs(a, aaaa) == (<<>> \o a) \o aaaa

\* findNS lines 111-117: the NSData of one NS record.
NSDataOf(ns, addrs) ==
    [Name |-> ns, IP |-> addrs,
     Info |-> [i \in 1..Len(addrs) |-> [IP |-> addrs[i], Name |-> ns]]]

findNSErr_EmptyIP(ds) ==
    IF Len(ds) = 0 \/ \E i \in 1..Len(ds) : ds[i].IP = <<>>
    THEN Errorf(<<"no", "NS", "found">>) ELSE NoErr

\* findNS lines 119-122
findNSErr(ds) == IF Len(ds) = 0 THEN Errorf(<<"no", "NS", "found">>) ELSE NoErr

\* dns.NextLabel(s, offset): <<i, end>> with 0-based i as in Go; s[k] of Go is s[k+1].
RECURSIVE BackslashRun(_, _)
BackslashRun(s, j) == IF j >= 0 /\ s[j + 1] = "\\" THEN BackslashRun(s, j - 1) ELSE j

RECURSIVE NextLabelLoop(_, _)
NextLabelLoop(s, i) ==
    IF ~(i < Len(s) - 1) THEN <<i + 1, TRUE>>
    ELSE IF s[i + 1] # "." THEN NextLabelLoop(s, i + 1)
    ELSE IF (i - BackslashRun(s, i - 1)) % 2 = 0 THEN NextLabelLoop(s, i + 1)
    ELSE <<i + 1, FALSE>>

NextLabel(s, offset) == IF s = <<>> THEN <<0, TRUE>> ELSE NextLabelLoop(s, offset)

getParentDomain_KeepLast(d) ==
    LET r == NextLabel(d, 0)
    IN  IF ~r[2] THEN SubSeq(d, r[1] + 1, Len(d)) ELSE d

getParentDomain(d) ==
    LET r == NextLabel(d, 0)
    IN  IF ~r[2] THEN SubSeq(d, r[1] + 1, Len(d)) ELSE <<".">>

\* fmt.Sprintf("ERR : %s failed on %s (%s): %s", check, ns, ip, err)
FindingLine(check, ns, addr, err) ==
    <<"ERR", ":">> \o check \o <<"failed", "on">> \o ns \o <<"(">> \o addr \o <<"):">> \o err.msg

Suppressed(err) ==
    StringsContains(err.msg, <<"NXDOMAIN">>) \/ StringsContains(err.msg, <<"no", "rr", "for">>)

\* scanerror: the value returned
scanerrorFail_ErrOnly(results, err) == ~err.isNil

scanerrorFail(results, err) ==
    LET fail1 == IF ~err.isNil THEN TRUE ELSE FALSE
    IN  IF Len(results) = 0 /\ err.isNil THEN TRUE ELSE fail1

\* scanerror: r.Result afterwards
scanerrorResult_NoSuppress(r, check, ns, addr, domain, results, err) ==
    IF ~err.isNil THEN Append(r, FindingLine(check, ns, addr, err)) ELSE r

scanerrorResult(r, check, ns, addr, domain, results, err) ==
    IF ~err.isNil /\ ~Suppressed(err)
    THEN Append(r, FindingLine(check, ns, addr, err))
    ELSE r


(***************************************************************************)
(* The inputs.                                                             *)
(***************************************************************************)
V6Doc == <<32, 1, 13, 184, 0, 0, 0, 0, 0, 0, 0, 0, 0, 0, 0, 1>>           \* 2001:db8::1
V6Low == <<32, 1, 13, 184, 0, 0, 0, 0, 0, 0, 0, 0, 10, 0, 0, 1>>          \* 2001:db8::a00:1
V6Compat == <<0, 0, 0, 0, 0, 0, 0, 0, 0, 0, 0, 0, 10, 0, 0, 1>>           \* ::10.0.0.1
V6Ten == <<10, 0, 0, 1, 0, 0, 0, 0, 0, 0, 0, 0, 0, 0, 0, 0>>              \* a00:1::
V6Ula == <<253, 0, 0, 0, 0, 0, 0, 0, 0, 0, 0, 0, 192, 168, 0, 1>>         \* fd00::c0a8:1

SubnetPool ==
    {IPv4(10, 0, 0, 1), IPv4(10, 0, 0, 254), IPv4(10, 0, 1, 1), IPv4(11, 0, 0, 1),
     ParseIPv4(10, 0, 0, 7), ParseIPv4(10, 128, 0, 1), V6Doc, V6Low}

PrivPool ==
    LET quads == {9, 10, 11, 171, 172, 173, 191, 192, 193}
                 \X {0, 15, 16, 17, 31, 32, 167, 168, 169, 255}
                 \X {0, 255} \X {0, 255}
    IN  {IPv4(q[1], q[2], q[3], q[4]) : q \in quads}
        \cup {ParseIPv4(q[1], q[2], q[3], q[4]) : q \in quads}
        \cup {V6Doc, V6Low, V6Compat, V6Ten, V6Ula}

RRPool ==
    {RR(TypeA, "203.0.113.1"), RR(TypeA, "203.0.113.2"), RR(TypeNS, "ns1.example.net."),
     RR(TypeAAAA, "2001:db8::1"), RR(5, "alias.example.net.")}

NSPool ==
    {RR(TypeNS, "ns1.example.net."), RR(TypeNS, "ns2.example.net."), RR(TypeA, "192.0.2.9")}

AddrPool ==
    {RR(TypeA, "203.0.113.1"), RR(TypeA, "203.0.113.2"),
     RR(TypeAAAA, "2001:db8::1"), RR(TypeAAAA, "2001:db8::2")}

\* What the exchanges of findNS and of queryRRset can produce.
NSOutcomes   == ExchOutcomes(NSPool)
AddrOutcomes == ExchOutcomes(AddrPool)
RROutcomes   == ExchOutcomes(RRPool)

ScanErrs ==
    {NoErr,
     Errorf(<<"i/o", "timeout">>),
     Errorf(<<"failure:", "NXDOMAIN">>),
     Errorf(<<"failure:", "REFUSED">>),
     Errorf(<<"no", "rr", "for", "0x2">>),
     Errorf(<<"no", "route", "for", "rr">>)}

ScanCalls ==
    [check : {<<"SOA", "check">>, <<"NS", "check">>},
     ns : {<<"ns1.example.net.">>},
     addr : {<<"192.0.2.1">>},
     domain : {<<"example.com.">>},
     results : {<<>>, <<RR(TypeNS, "ns1.example.net.")>>},
     err : ScanErrs]

OldFindings == {<<>>, <<<<"WARN", ":", "older", "finding">>>>}

Chars == {"a", ".", "\\"}

\* Reading a name left to right: a backslash escapes the character after it.
RECURSIVE Escaped(_, _)
Escaped(s, i) == i > 1 /\ s[i - 1] = "\\" /\ ~Escaped(s, i - 1)

LabelEnds(s) == {i \in 1..Len(s) : s[i] = "." /\ ~Escaped(s, i)}

\* Fully qualified names: the root, or non-empty labels each closed by a dot.
IsFqdn(s) ==
    /\ s # <<>>
    /\ Len(s) \in LabelEnds(s)
    /\ s # <<".">> => /\ 1 \notin LabelEnds(s)
                      /\ \A i \in LabelEnds(s) : i + 1 \notin LabelEnds(s)

Fqdns == {s \in SeqsUpTo(Chars, MaxName) : IsFqdn(s)}

(***************************************************************************)
(* Idle values of each group of variables.                                 *)
(***************************************************************************)
IdleNet  == ips = <<>> /\ same = FALSE /\ ip = <<>> /\ priv = FALSE
IdleRR   == /\ rrIn = <<>> /\ rrTypes = <<>> /\ rrOut = <<>>
            /\ qtype = TypeA /\ exch = NoExch
            /\ qres = [rrset |-> <<>>, rtt |-> 0, err |-> NoErr]
IdleNS   == /\ nsExch = NoExch /\ rrset = <<>> /\ idx = 0 /\ fips = <<>>
            /\ nsdatas = <<>> /\ ferr = NoErr /\ lastA = NoExch /\ lastAAAA = NoExch
IdleScan == report = <<>> /\ report0 = <<>> /\ calls = <<>> /\ fail = FALSE
IdleDom  == dom0 = <<".">> /\ dom = <<".">> /\ steps = 0

(***************************************************************************)
(* isSameSubnet                                                            *)
(***************************************************************************)
InitSubnet ==
    /\ pc = "call"
    /\ ips \in SeqsUpTo(SubnetPool, MaxIPs)
    /\ same = FALSE /\ ip = <<>> /\ priv = FALSE
    /\ IdleRR /\ IdleNS /\ IdleScan /\ IdleDom

CallIsSameSubnet ==
    /\ pc = "call"
    /\ same' = isSameSubnet(ips)
    /\ pc' = "isSameSubnet"
    /\ UNCHANGED <<ips, ip, priv, rrVars, nsVars, scanVars, domVars>>

NextSubnet == CallIsSameSubnet

SpecSubnet == InitSubnet /\ [][NextSubnet]_vars

(***************************************************************************)
(* isRFC1918                                                               *)
(***************************************************************************)
InitPrivate ==
    /\ pc = "call"
    /\ ip \in PrivPool
    /\ priv = FALSE /\ ips = <<>> /\ same = FALSE
    /\ IdleRR /\ IdleNS /\ IdleScan /\ IdleDom

CallIsRFC1918 ==
    /\ pc = "call"
    /\ priv' = isRFC1918(ip)
    /\ pc' = "isRFC1918"
    /\ UNCHANGED <<ips, same, ip, rrVars, nsVars, scanVars, domVars>>

NextPrivate == CallIsRFC1918

SpecPrivate == InitPrivate /\ [][NextPrivate]_vars

(***************************************************************************)
(* extractRR and queryRRset                                                *)
(***************************************************************************)
InitRR ==
    /\ IdleNet /\ IdleNS /\ IdleScan /\ IdleDom
    /\ rrOut = <<>>
    /\ qres = [rrset |-> <<>>, rtt |-> 0, err |-> NoErr]
    /\ \/ /\ pc = "call extractRR"
          /\ rrIn \in SeqsUpTo(RRPool, MaxLen)
          /\ rrTypes \in SeqsUpTo(Types, MaxTypes)
          /\ qtype = TypeA /\ exch = NoExch
       \/ /\ pc = "call queryRRset"
          /\ qtype \in Types
          /\ exch \in RROutcomes
          /\ rrIn = <<>> /\ rrTypes = <<>>

CallExtractRR ==
    /\ pc = "call extractRR"
    /\ rrOut' = extractRR(rrIn, rrTypes)
    /\ pc' = "extractRR"
    /\ UNCHANGED <<rrIn, rrTypes, qtype, exch, qres, netVars, nsVars, scanVars, domVars>>

CallQueryRRset ==
    /\ pc = "call queryRRset"
    /\ qres' = queryRRset(qtype, exch)
    /\ pc' = "queryRRset"
    /\ UNCHANGED <<rrIn, rrTypes, rrOut, qtype, exch, netVars, nsVars, scanVars, domVars>>

NextRR == CallExtractRR \/ CallQueryRRset

SpecRR == InitRR /\ [][NextRR]_vars

(***************************************************************************)
(* findNS: the NS query, then per NS record the A and the AAAA lookup.     *)
(***************************************************************************)
InitNS == pc = "findNS" /\ IdleNet /\ IdleRR /\ IdleNS /\ IdleScan /\ IdleDom

\* lines 99-104, and 119-122 when the range is empty
FindNSQuery ==
    /\ pc = "findNS"
    /\ \E o \in NSOutcomes :
        LET r == queryRRset(TypeNS, o)
        IN  /\ nsExch' = o
            /\ IF ~r.err.isNil
               THEN /\ ferr' = r.err
                    /\ pc' = "done"
                    /\ UNCHANGED <<rrset, idx>>
               ELSE /\ rrset' = r.rrset
                    /\ idx' = 1
                    /\ ferr' = (IF Len(r.rrset) = 0 THEN findNSErr(<<>>) ELSE NoErr)
                    /\ pc' = (IF Len(r.rrset) = 0 THEN "done" ELSE "lookupA")
    /\ UNCHANGED <<fips, nsdatas, lastA, lastAAAA, netVars, rrVars, scanVars, domVars>>

\* line 109
FindNSLookupA ==
    /\ pc = "lookupA"
    /\ \E o \in AddrOutcomes :
        /\ lastA' = o
        /\ fips' = getIP(TypeA, o)
    /\ lastAAAA' = NoExch
    /\ pc' = "lookupAAAA"
    /\ UNCHANGED <<nsExch, rrset, idx, nsdatas, ferr, netVars, rrVars, scanVars, domVars>>

\* lines 110-118, and 119-122 after the last NS record
FindNSLookupAAAA ==
    /\ pc = "lookupAAAA"
    /\ \E o \in AddrOutcomes :
        LET ns    == rrset[idx].data
            addrs == nsIPs(fips, getIP(TypeAAAA, o))
            ds    == Append(nsdatas, NSDataOf(ns, addrs))
        IN  /\ lastAAAA' = o
            /\ nsdatas' = ds
            /\ IF idx < Len(rrset)
               THEN pc' = "lookupA" /\ ferr' = ferr
               ELSE pc' = "done" /\ ferr' = findNSErr(ds)
    /\ idx' = idx + 1
    /\ fips' = <<>>
    /\ lastA' = NoExch
    /\ UNCHANGED <<nsExch, rrset, netVars, rrVars, scanVars, domVars>>

NextNS == FindNSQuery \/ FindNSLookupA \/ FindNSLookupAAAA

SpecNS == InitNS /\ [][NextNS]_vars

(***************************************************************************)
(* scanerror                                                               *)
(***************************************************************************)
InitScan ==
    /\ pc = "idle"
    /\ report0 \in OldFindings
    /\ report = report0
    /\ calls = <<>>
    /\ fail = FALSE
    /\ IdleNet /\ IdleRR /\ IdleNS /\ IdleDom

CallScanerror ==
    /\ Len(calls) < MaxCalls
    /\ \E c \in ScanCalls :
        /\ report' = scanerrorResult(report, c.check, c.ns, c.addr, c.domain, c.results, c.err)
        /\ fail' = scanerrorFail(c.results, c.err)
        /\ calls' = Append(calls, c)
    /\ pc' = "scanerror"
    /\ UNCHANGED <<report0, netVars, rrVars, nsVars, domVars>>

NextScan == CallScanerror

SpecScan == InitScan /\ [][NextScan]_vars

(***************************************************************************)
(* getParentDomain, applied over and over                                  *)
(***************************************************************************)
InitDom ==
    /\ pc = "walk"
    /\ dom0 \in Fqdns
    /\ dom = dom0
    /\ steps = 0
    /\ IdleNet /\ IdleRR /\ IdleNS /\ IdleScan

CallGetParentDomain ==
    /\ steps < MaxSteps
    /\ dom' = getParentDomain(dom)
    /\ steps' = steps + 1
    /\ UNCHANGED <<pc, dom0, netVars, rrVars, nsVars, scanVars>>

NextDom == CallGetParentDomain

SpecDom == InitDom /\ [][NextDom]_vars


(***************************************************************************)
(* What the claims are stated with.                                        *)
(***************************************************************************)
\* The k-th smallest member of a set of indices.
KthOf(M, k) == CHOOSE i \in M : Cardinality({j \in M : j < i}) = k - 1

\* An IPv4 address: four bytes, or the IPv4-mapped sixteen (::ffff:a.b.c.d).
IsIPv4Addr(x) ==
    \/ Len(x) = 4
    \/ Len(x) = 16 /\ SubSeq(x, 1, 12) = <<0, 0, 0, 0, 0, 0, 0, 0, 0, 0, 255, 255>>

Quad(x) == IF Len(x) = 4 THEN x ELSE SubSeq(x, 13, 16)

\* The first 24 and the first 16 bits of an IPv4 address, as numbers.
Top24(x) == Quad(x)[1] * 65536 + Quad(x)[2] * 256 + Quad(x)[3]
Top16(x) == Quad(x)[1] * 256 + Quad(x)[2]

\* out is rs filtered to the types T: the matching records, in place order.
IsFilterOf(out, rs, T) ==
    LET M == {i \in 1..Len(rs) : rs[i].rrtype \in T}
    IN  /\ Len(out) = Cardinality(M)
        /\ \A k \in 1..Len(out) : out[k] = rs[KthOf(M, k)]

HasType(o, t) == \E i \in 1..Len(o.answer) : o.answer[i].rrtype = t

\* C1: isSameSubnet is true exactly when all IPv4 addresses of the list
\* have the same first 24 bits; the other addresses do not matter, and
\* fewer than two IPv4 addresses give true.
C1_SameSubnet ==
    pc = "isSameSubnet" =>
        (same <=> \A i, j \in 1..Len(ips) :
                      IsIPv4Addr(ips[i]) /\ IsIPv4Addr(ips[j])
                          => Top24(ips[i]) = Top24(ips[j]))

C1_Witness ==
    /\ pc = "isSameSubnet"
    /\ same
    /\ Len(ips) = 3
    /\ ips[1] = IPv4(10, 0, 0, 1)
    /\ ~IsIPv4Addr(ips[2])
    /\ ips[3] = IPv4(10, 0, 0, 254)

\* C9: for an IPv4 address isRFC1918 is true exactly in 10.0.0.0/8,
\* 172.16.0.0/12 and 192.168.0.0/16; for an IPv6 address that is not
\* IPv4-mapped it is false.
C9_RFC1918 ==
    pc = "isRFC1918" =>
        /\ IsIPv4Addr(ip) =>
              (priv <=> \/ Top16(ip) \in (10 * 256)..(10 * 256 + 255)
                        \/ Top16(ip) \in (172 * 256 + 16)..(172 * 256 + 31)
                        \/ Top16(ip) = 192 * 256 + 168)
        /\ Len(ip) = 16 /\ ~IsIPv4Addr(ip) => ~priv

C9_Witness ==
    /\ pc = "isRFC1918"
    /\ ip = IPv4(172, 31, 255, 255)
    /\ priv

\* C5: extractRR returns exactly the records whose type is requested, in
\* the order of the input; what queryRRset returns on success is the answer
\* section so filtered to the requested type.
C5_ExtractRR ==
    /\ pc = "extractRR" =>
          IsFilterOf(rrOut, rrIn, {t \in Types : \E i \in 1..Len(rrTypes) : rrTypes[i] = t})
    /\ pc = "queryRRset" /\ qres.err.isNil =>
          IsFilterOf(qres.rrset, exch.answer, {qtype})

C5_Witness ==
    /\ pc = "extractRR"
    /\ Len(rrTypes) = 2
    /\ Len(rrIn) = 3
    /\ Len(rrOut) = 2
    /\ rrOut[1] # rrOut[2]
    /\ rrOut[2] = rrIn[3]

\* C4: queryRRset yields the transport error if there is one; else a
\* server-rejected error if the response code is not zero, whatever the
\* answer holds; else a no-records error if no answer record has the
\* requested type; else success.  Success is never empty; an error comes
\* with no records and zero latency.
C4_QueryRRset ==
    pc = "queryRRset" =>
        /\ ~exch.err.isNil => qres.err = exch.err
        /\ exch.err.isNil /\ exch.rcode # 0 =>
              qres.err = Errorf(<<"failure:", RcodeToString(exch.rcode)>>)
        /\ exch.err.isNil /\ exch.rcode = 0 /\ ~HasType(exch, qtype) =>
              /\ ~qres.err.isNil
              /\ SubSeq(qres.err.msg, 1, 3) = <<"no", "rr", "for">>
        /\ exch.err.isNil /\ exch.rcode = 0 /\ HasType(exch, qtype) => qres.err.isNil
        /\ qres.err.isNil => qres.rrset # <<>>
        /\ ~qres.err.isNil => qres.rrset = <<>> /\ qres.rtt = 0

C4_Witness ==
    /\ pc = "queryRRset"
    /\ exch.rcode = 5
    /\ HasType(exch, qtype)
    /\ qres.err = Errorf(<<"failure:", "REFUSED">>)


\* The NS resolution of findNS fails: no response, a rejected one, or one
\* without an NS record.
NSLookupFails(o) == ~o.err.isNil \/ o.rcode # 0 \/ ~HasType(o, TypeNS)

\* The data of the records of type t in an accepted response, in answer
\* order; nothing for a failed exchange.
AnsweredData(o, t) ==
    LET M == {i \in 1..Len(o.answer) : o.answer[i].rrtype = t}
    IN  IF o.err.isNil /\ o.rcode = 0
        THEN [k \in 1..Cardinality(M) |-> o.answer[KthOf(M, k)].data]
        ELSE <<>>

\* The state part of C2.
C2_Returned ==
    pc = "done" =>
        /\ ~ferr.isNil <=> NSLookupFails(nsExch)
        /\ ferr.isNil => Len(nsdatas) = Len(AnsweredData(nsExch, TypeNS))

\* C2: findNS returns an error exactly when the NS resolution fails;
\* whatever the A and AAAA lookups of a nameserver do, it gets its entry,
\* with no address when neither lookup yields one.
C2_FindNSError ==
    [][/\ C2_Returned'
       /\ pc = "lookupAAAA" =>
             /\ Len(nsdatas') = Len(nsdatas) + 1
             /\ ferr'.isNil
             /\ AnsweredData(lastA, TypeA) = <<>> /\ AnsweredData(lastAAAA', TypeAAAA) = <<>>
                    => nsdatas'[Len(nsdatas')].IP = <<>>]_vars

C2_Witness ==
    /\ pc = "done"
    /\ ferr.isNil
    /\ Len(nsdatas) = 2
    /\ nsdatas[1].IP = <<"203.0.113.1">>
    /\ nsdatas[2].IP = <<>>
    /\ lastAAAA.rcode = 5

\* The state part of C3.
C3_Entries ==
    pc \in {"lookupA", "lookupAAAA", "done"} /\ ferr.isNil =>
        LET targets == AnsweredData(nsExch, TypeNS)
        IN  /\ Len(nsdatas) <= Len(targets)
            /\ pc = "done" => Len(nsdatas) = Len(targets)
            /\ \A i \in 1..Len(nsdatas) : nsdatas[i].Name = targets[i]

\* C3: on success findNS returns one entry per NS record, in the order of
\* the NS records and named after their targets; an entry's addresses are
\* those of its A lookup, then those of its AAAA lookup, each in answer
\* order; an entry once added stays as it is.
C3_FindNSOrder ==
    [][/\ C3_Entries'
       /\ Len(nsdatas) <= Len(nsdatas')
       /\ SubSeq(nsdatas', 1, Len(nsdatas)) = nsdatas
       /\ pc = "lookupAAAA" =>
             /\ Len(nsdatas') = Len(nsdatas) + 1
             /\ nsdatas'[Len(nsdatas')].IP =
                    AnsweredData(lastA, TypeA) \o AnsweredData(lastAAAA', TypeAAAA)]_vars

C3_Witness ==
    /\ pc = "done"
    /\ ferr.isNil
    /\ Len(nsdatas) = 2
    /\ nsdatas[1].Name = "ns2.example.net."
    /\ nsdatas[2].Name = "ns1.example.net."
    /\ nsdatas[1].IP = <<"203.0.113.2", "203.0.113.1", "2001:db8::2", "2001:db8::1">>
    /\ nsdatas[2].IP = <<"2001:db8::1">>

\* An error whose text names neither NXDOMAIN nor "no rr for".
Unsuppressed(e) ==
    /\ ~e.isNil
    /\ ~\E i \in 1..Len(e.msg) : e.msg[i] = "NXDOMAIN"
    /\ ~\E i \in 1..(Len(e.msg) - 2) :
            e.msg[i] = "no" /\ e.msg[i + 1] = "rr" /\ e.msg[i + 2] = "for"

Names(line, words) ==
    \E k \in 0..(Len(line) - Len(words)) :
        \A i \in 1..Len(words) : line[k + i] = words[i]

\* C6: scanerror returns true exactly when an error was passed or no
\* record was, suppressed error or not.
C6_ScanerrorFails ==
    calls # <<>> =>
        LET c == calls[Len(calls)]
        IN  fail <=> (~c.err.isNil \/ Len(c.results) = 0)

C6_Witness ==
    /\ calls # <<>>
    /\ fail
    /\ calls[Len(calls)].err = Errorf(<<"failure:", "NXDOMAIN">>)
    /\ calls[Len(calls)].results # <<>>

\* C7: the findings are the initial ones followed by one line for each
\* call with an unsuppressed error, in call order.
C7_FindingsAppended ==
    LET U == {i \in 1..Len(calls) : Unsuppressed(calls[i].err)}
        n == Len(report0)
    IN  /\ Len(report) = n + Cardinality(U)
        /\ SubSeq(report, 1, n) = report0
        /\ \A k \in 1..Cardinality(U) :
              LET c == calls[KthOf(U, k)]
              IN  report[n + k] = FindingLine(c.check, c.ns, c.addr, c.err)

C7_Witness ==
    /\ Len(calls) = 2
    /\ report0 # <<>>
    /\ calls[1].err = Errorf(<<"no", "rr", "for", "0x2">>)
    /\ calls[2].err = Errorf(<<"no", "route", "for", "rr">>)
    /\ Len(report) = 2

\* C8: each line scanerror appends names the check, the server, the
\* address, the domain and the error text of its call.
C8_LineNamesAll ==
    LET U == {i \in 1..Len(calls) : Unsuppressed(calls[i].err)}
    IN  \A k \in 1..Cardinality(U) :
            LET c    == calls[KthOf(U, k)]
                line == report[Len(report0) + k]
            IN  /\ Names(line, c.check)
                /\ Names(line, c.ns)
                /\ Names(line, c.addr)
                /\ Names(line, c.domain)
                /\ Names(line, c.err.msg)

\* The labels of a name, read left to right.
NumLabels(s) == IF s = <<".">> THEN 0 ELSE Cardinality(LabelEnds(s))

\* The name with its k leftmost labels removed.
WithoutLabels(s, k) ==
    IF k >= NumLabels(s) THEN <<".">>
    ELSE IF k = 0 THEN s
    ELSE SubSeq(s, KthOf(LabelEnds(s), k) + 1, Len(s))

\* C10: getParentDomain removes the leftmost label of a fully qualified
\* name, an escaped dot being part of its label, and gives "." for a name
\* of one label and for "."; an n-label name reaches "." after exactly n
\* applications and stays there.
C10_ParentDomain ==
    /\ dom = WithoutLabels(dom0, steps)
    /\ dom = <<".">> <=> steps >= NumLabels(dom0)

C10_Witness ==
    /\ dom0 = <<"a", "\\", ".", ".", "a", ".">>
    /\ steps = 1
    /\ dom = <<"a", ".">>

====
